---- MODULE Spec2Model ----
(***************************************************************************)
(* A model of the clobber TCP load driver: the Config partitioning math,   *)
(* the driver entrypoint clobber() (thread spawn, stagger, join) and the   *)
(* per-worker request loop connection() of src/src/tcp.rs; and of the      *)
(* WorkerPool of src/src/pool.rs.                                          *)
(*                                                                         *)
(* Time is a global integer clock `now` counted in ticks; Second is the    *)
(* number of ticks in Duration::from_secs(1).  Computation takes no time;  *)
(* only I/O (connect, write, read) and sleeps let the clock advance.       *)
(* An Option<u32> / Option<Duration> is an integer, None being -1.         *)
(***************************************************************************)
EXTENDS Integers, Sequences, FiniteSets, TLC

None == -1

\* ---- bounds of the model ----
MaxWorkers == 2
MaxThreads == 2
MaxRate == 2
MaxDuration == 2
MaxLimit == 1
MaxRepeat == 2
MaxTime == 4
MaxLat == 1
Second == 2
\* bounds of the WorkerPool: the workers asked of new(), the tasks pushed,
\* the results a task sends, the capacity of the caller's output channel
PoolWorkers == 2
MaxTasks == 3
MaxResults == 2
OutputCap == 1
\* bounds of the Config arithmetic, checked on its own over a wider range
MathWorkers == 4
MathThreads == 3
MathRate == 3
MathLimit == 2
MathRepeat == 2

\* num_cpus::get() of the host
NumCpus == 2

\* `let connections = 100` of Config::new
DefaultWorkers == 100

\* cap on the checks a worker makes: it may run MaxLimit iterations and still
\* make the check that stops it
MaxCount == MaxLimit + 1

VARIABLES config, derived, now, driver, wk, pool

vars == <<config, derived, now, driver, wk, pool>>

\* ---- Config and its derived quantities ----

IsSome(x) == x # None

num_threads(cfg) ==
    IF cfg.threads = None THEN NumCpus ELSE cfg.threads

\* the quotient as it is, without the `0 => 1` arm
connections_per_thread_floor(cfg) ==
    cfg.workers \div num_threads(cfg)

connections_per_thread(cfg) ==
    LET n == cfg.workers \div num_threads(cfg)
    IN  IF n = 0 THEN 1 ELSE n

\* the multiplications done before the division
connection_delay_mulfirst(cfg) ==
    IF IsSome(cfg.rate)
    THEN (Second * connections_per_thread(cfg) * num_threads(cfg)) \div cfg.rate
    ELSE 0

\* the delay of one thread's share, the thread count left out
connection_delay_per_thread(cfg) ==
    IF IsSome(cfg.rate)
    THEN (Second \div cfg.rate) * connections_per_thread(cfg)
    ELSE 0

\* the delay with the workers of a thread left out
connection_delay_flat(cfg) ==
    IF IsSome(cfg.rate)
    THEN (Second \div cfg.rate) * num_threads(cfg)
    ELSE 0

connection_delay(cfg) ==
    IF IsSome(cfg.rate)
    THEN (Second \div cfg.rate) * connections_per_thread(cfg) * num_threads(cfg)
    ELSE 0

\* the whole limit given to every connection
limit_per_connection_whole(cfg) == cfg.limit

\* the limit shared out rounding up
limit_per_connection_ceil(cfg) ==
    IF cfg.limit = None THEN None ELSE (cfg.limit + cfg.workers - 1) \div cfg.workers

limit_per_connection(cfg) ==
    IF cfg.limit = None THEN None ELSE cfg.limit \div cfg.workers

Configs ==
    [ workers  : 1..MaxWorkers,
      threads  : 0..MaxThreads,
      rate     : {None} \cup (1..MaxRate),
      duration : {None} \cup (1..MaxDuration),
      limit    : {None} \cup (0..MaxLimit),
      repeat   : 1..MaxRepeat,
      connect_timeout : {None},
      read_timeout    : {None},
      fuzz_path       : {None} ]

\* no WorkerPool has been built
NoPool == [ pc |-> "none" ]

\* the methods of Config not called yet
NotDerived == [ called |-> FALSE ]

\* ---- workers ----

MaxT == IF NumCpus > MaxThreads THEN NumCpus ELSE MaxThreads

WorkerIds == (1..MaxT) \X (0..(MaxWorkers - 1))

Spawned(cfg) ==
    { w \in WorkerIds : w[1] <= num_threads(cfg) /\ w[2] < connections_per_thread(cfg) }

\* the checks a worker is followed for: one more when it runs alone
CountCap(cfg) ==
    IF Cardinality(Spawned(cfg)) = 1 THEN MaxCount + 1 ELSE MaxCount

\* the bytes of the Message handed to clobber()
Payload == "payload"

\* A worker is a future on its thread's LocalPool: it runs from one suspension
\* point (connect, write, read, the pacing Delay) to the next without being
\* interleaved, so pc names the await the worker is suspended at ("close" is
\* the end of the `if let Ok(mut stream)` block, where the stream is dropped).
\*   count, start, request_start : the locals of connection()
\*   open   : streams the worker holds open
\*   ex     : exchanges finished on the current connection
\*   res    : what connection() returned ("none" while it runs)
\*   message: the worker's clone of the Message
\*   sent   : the bytes written in this iteration ("" before the write)
\* and, recorded for the properties only:
\*   iters    : loop bodies finished        advances : mutator advance() calls
\*   closed   : connections dropped
\*   lat      : longest request so far      ev       : events of this iteration
\*   warns    : "running behind" warnings logged
\*   faulted  : a connect, write or read of the worker has failed
Unspawned ==
    [ pc |-> "unspawned", count |-> 0, start |-> 0, request_start |-> 0,
      wake |-> 0, open |-> 0, ex |-> 0, res |-> "none",
      message |-> Payload, sent |-> "",
      iters |-> 0, closed |-> 0, advances |-> 0, lat |-> 0, warns |-> 0,
      faulted |-> FALSE, ev |-> << >> ]

IoPcs == {"connect", "write", "read"}

\* loop_complete comparing with >= : the worker stops one iteration early
loop_complete_ge(cfg, count, start, t) ==
    LET c == count + 1
        byDuration == IsSome(cfg.duration) /\ t >= start + cfg.duration
        byLimit == IsSome(limit_per_connection(cfg)) /\ c >= limit_per_connection(cfg)
    IN  [ count |-> c, done |-> byDuration \/ byLimit ]

\* loop_complete that goes on at the very instant the duration is over
loop_complete_gt(cfg, count, start, t) ==
    LET c == count + 1
        byDuration == IsSome(cfg.duration) /\ t > start + cfg.duration
        byLimit == IsSome(limit_per_connection(cfg)) /\ c > limit_per_connection(cfg)
    IN  [ count |-> c, done |-> byDuration \/ byLimit ]

\* loop_complete that leaves count alone: the check no longer counts iterations
loop_complete_nobump(cfg, count, start, t) ==
    LET byDuration == IsSome(cfg.duration) /\ t >= start + cfg.duration
        byLimit == IsSome(limit_per_connection(cfg)) /\ count > limit_per_connection(cfg)
    IN  [ count |-> count, done |-> byDuration \/ byLimit ]

\* the closure loop_complete: bumps count, then tests duration and limit
loop_complete(cfg, count, start, t) ==
    LET c == count + 1
        byDuration == IsSome(cfg.duration) /\ t >= start + cfg.duration
        byLimit == IsSome(limit_per_connection(cfg)) /\ c > limit_per_connection(cfg)
    IN  [ count |-> c, done |-> byDuration \/ byLimit ]

Init ==
    /\ config \in Configs
    /\ derived = NotDerived
    /\ now = 0
    /\ driver = [ pc |-> "spawn", spawned |-> 0, joined |-> 0, wake |-> 0,
                  start |-> 0, retAt |-> 0, result |-> "none" ]
    /\ wk = [ w \in WorkerIds |-> Unspawned ]
    /\ pool = NoPool

\* ---- the driver: clobber() ----

\* a stagger of one inter-request tick
thread_stagger_tick(cfg) == connection_delay(cfg)

\* `Duration::from_secs(1) / config.num_threads()`: the sleep after each spawn
thread_stagger(cfg) == Second \div num_threads(cfg)

\* the loop over `0..=connections_per_thread()`
spawn_workers_inclusive(cfg, t, w) ==
    w[1] = t /\ w[2] <= connections_per_thread(cfg)

\* `for i in 0..config.connections_per_thread()`: worker w is spawned on the
\* LocalPool of thread t
spawn_workers(cfg, t, w) ==
    w[1] = t /\ w[2] < connections_per_thread(cfg)

SpawnThread ==
    /\ driver.pc = "spawn"
    /\ driver.spawned < num_threads(config)
    /\ wk' = [ w \in WorkerIds |->
                 IF spawn_workers(config, driver.spawned + 1, w)
                 THEN [ Unspawned EXCEPT !.pc = "start" ]
                 ELSE wk[w] ]
    /\ driver' = [ driver EXCEPT !.spawned = @ + 1, !.pc = "sleep",
                                 !.wake = now + thread_stagger(config) ]
    /\ UNCHANGED <<pool, config, derived, now>>

StaggerDone ==
    /\ driver.pc = "sleep"
    /\ now >= driver.wake
    /\ driver' = [ driver EXCEPT !.pc = IF driver.spawned < num_threads(config)
                                        THEN "spawn" ELSE "join",
                                 !.wake = 0 ]
    /\ UNCHANGED <<pool, config, derived, now, wk>>

ThreadWorkers(t) == { w \in Spawned(config) : w[1] = t }

\* a future of the pool panicked (expect() on an Err of connection(), unwrap()
\* on an Err of the Delay): pool.run() unwinds and the thread ends
ThreadPanicked(t) ==
    \E w \in ThreadWorkers(t) : wk[w].res = "Err" \/ wk[w].pc = "panicked"

\* handles that are not waited for
ThreadFinishedDetached(t) == TRUE

\* handle.join() returns: pool.run() came back, or the thread unwound
ThreadFinished(t) ==
    \/ ThreadPanicked(t)
    \/ \A w \in ThreadWorkers(t) : wk[w].pc = "done"

Join ==
    /\ driver.pc = "join"
    /\ driver.joined < num_threads(config)
    /\ ThreadFinished(driver.joined + 1)
    /\ driver' = IF ThreadPanicked(driver.joined + 1)
                 THEN [ driver EXCEPT !.pc = "panicked", !.result = "Panic", !.retAt = now ]
                 ELSE [ driver EXCEPT !.joined = @ + 1 ]
    /\ UNCHANGED <<pool, config, derived, now, wk>>

\* both loops of clobber() are over (with no thread to spawn they never ran)
Return ==
    /\ driver.pc \in {"spawn", "join"}
    /\ driver.spawned = num_threads(config)
    /\ driver.joined = num_threads(config)
    /\ driver' = [ driver EXCEPT !.pc = "returned", !.result = "Ok", !.retAt = now ]
    /\ UNCHANGED <<pool, config, derived, now, wk>>

\* ---- the worker: connection() ----

\* `while !loop_complete()`: either the loop is left and connection() returns
\* Ok(()), or request_start is taken and the connect is issued
DoCheck(cfg, r, t) ==
    LET lc == loop_complete(cfg, r.count, r.start, t)
    IN  IF lc.done
        THEN [ r EXCEPT !.pc = "done", !.count = lc.count, !.res = "Ok",
                        !.sent = "", !.ev = <<"inc", "stop">> ]
        ELSE [ r EXCEPT !.pc = "connect", !.count = lc.count, !.request_start = t,
                        !.sent = "", !.ev = <<"inc", "go">> ]

\* the connect of the next iteration, issued without consulting loop_complete
IssueConnect(cfg, r, t) ==
    [ r EXCEPT !.pc = "connect", !.request_start = t,
               !.ev = <<"go">> ]

\* where the worker goes once the pacing of its iteration is settled: back to
\* the head of the while loop
after_pacing(cfg, r, t) == DoCheck(cfg, r, t)

\* pacing that sleeps a whole connection_delay whatever the iteration took
DoPaceWhole(cfg, r, t) ==
    LET elapsed == t - r.request_start
        delay == connection_delay(cfg)
    IN  IF IsSome(cfg.rate)
        THEN IF elapsed < delay
             THEN [ r EXCEPT !.pc = "sleep", !.wake = t + delay,
                             !.request_start = 0, !.ev = Append(@, "sleep") ]
             ELSE after_pacing(cfg, [ r EXCEPT !.request_start = 0, !.warns = @ + 1,
                                               !.ev = Append(@, "warn") ], t)
        ELSE after_pacing(cfg, [ r EXCEPT !.request_start = 0 ], t)

\* pacing that says nothing when the worker is running behind
DoPaceSilent(cfg, r, t) ==
    LET elapsed == t - r.request_start
        delay == connection_delay(cfg)
    IN  IF IsSome(cfg.rate)
        THEN IF elapsed < delay
             THEN [ r EXCEPT !.pc = "sleep", !.wake = t + (delay - elapsed),
                             !.request_start = 0, !.ev = Append(@, "sleep") ]
             ELSE after_pacing(cfg, [ r EXCEPT !.request_start = 0 ], t)
        ELSE after_pacing(cfg, [ r EXCEPT !.request_start = 0 ], t)

\* `if config.rate.is_some()`: sleep for what is left of connection_delay, or
\* warn that the worker is running behind
DoPace(cfg, r, t) ==
    LET elapsed == t - r.request_start
        delay == connection_delay(cfg)
    IN  IF IsSome(cfg.rate)
        THEN IF elapsed < delay
             THEN [ r EXCEPT !.pc = "sleep", !.wake = t + (delay - elapsed),
                             !.request_start = 0, !.ev = Append(@, "sleep") ]
             ELSE after_pacing(cfg, [ r EXCEPT !.request_start = 0, !.warns = @ + 1,
                                               !.ev = Append(@, "warn") ], t)
        ELSE after_pacing(cfg, [ r EXCEPT !.request_start = 0 ], t)

\* the loop body is over, the counter being bumped here, after the exchange
EndIterationInc(cfg, r, t) ==
    DoPace(cfg, [ r EXCEPT !.iters = @ + 1, !.count = @ + 1,
                           !.ev = Append(@, "inc"),
                           !.lat = IF t - r.request_start > @
                                   THEN t - r.request_start ELSE @ ], t)

\* the loop body is over
EndIteration(cfg, r, t) ==
    DoPace(cfg, [ r EXCEPT !.iters = @ + 1,
                           !.lat = IF t - r.request_start > @
                                   THEN t - r.request_start ELSE @ ], t)

\* the stream outlives the block (kept in a collection, say)
keep_stream(open) == open

\* the stream goes out of scope at the end of the `if let Ok(mut stream)` block
drop_stream(open) == open - 1

\* PostTx: the mutator is advanced once the connection is closed
DoAdvance(r) ==
    [ r EXCEPT !.advances = @ + 1, !.ev = Append(@, "advance") ]

CloseConnection(cfg, r, t) ==
    EndIteration(cfg, DoAdvance([ r EXCEPT !.open = drop_stream(@),
                                           !.closed = @ + 1,
                                           !.ev = Append(@, "drop") ]), t)

\* the Err is propagated with `?`
propagate_io_error(res) == "Err"

\* what connection() makes of the Err of a connect, a write or a read: nothing,
\* `if let Ok(..)` and `.ok()` discard it
on_io_error(res) == res

\* connection() returned Err: the loop is over, expect() panics the thread
Settle(cfg, r, t, next) ==
    IF r.res = "Err" THEN [ r EXCEPT !.pc = "failed" ] ELSE next

\* one exchange per connection whatever repeat says
more_exchanges_never(cfg, ex) == FALSE

\* another write/read exchange is due on this connection
more_exchanges(cfg, ex) == ex < cfg.repeat

\* a failed connect that `continue`s to the head of the loop, past the pacing
ConnectDoneNoPace(cfg, r, ok, t) ==
    IF ok
    THEN [ r EXCEPT !.pc = "write", !.open = @ + 1, !.ex = 0,
                    !.ev = Append(@, "connect") ]
    ELSE LET e == [ r EXCEPT !.res = on_io_error(@), !.ev = Append(@, "connect_err"),
                             !.faulted = TRUE, !.iters = @ + 1, !.request_start = 0 ]
         IN  Settle(cfg, e, t, after_pacing(cfg, e, t))

ConnectDone(cfg, r, ok, t) ==
    IF ok
    THEN [ r EXCEPT !.pc = "write", !.open = @ + 1, !.ex = 0,
                    !.ev = Append(@, "connect") ]
    ELSE LET e == [ r EXCEPT !.res = on_io_error(@), !.faulted = TRUE,
                             !.ev = Append(@, "connect_err") ]
         IN  Settle(cfg, e, t, EndIteration(cfg, e, t))

\* a write that drains the buffer it is given
WriteDoneDraining(cfg, r, ok, t) ==
    IF ok
    THEN [ r EXCEPT !.pc = "read", !.sent = r.message, !.message = "",
                    !.ev = Append(@, "write") ]
    ELSE LET e == [ r EXCEPT !.res = on_io_error(@), !.faulted = TRUE,
                             !.ev = Append(@, "write_err") ]
         IN  Settle(cfg, e, t, [ e EXCEPT !.pc = "close" ])

\* a write whose Err is discarded with .ok(): the read follows all the same
WriteDoneReadAnyway(cfg, r, ok, t) ==
    IF ok
    THEN [ r EXCEPT !.pc = "read", !.sent = r.message, !.ev = Append(@, "write") ]
    ELSE LET e == [ r EXCEPT !.res = on_io_error(@), !.faulted = TRUE,
                             !.ev = Append(@, "write_err") ]
         IN  Settle(cfg, e, t, [ e EXCEPT !.pc = "read" ])

\* `write(&mut stream, &message.body)`: write_all of the worker's bytes
WriteDone(cfg, r, ok, t) ==
    IF ok
    THEN [ r EXCEPT !.pc = "read", !.sent = r.message, !.ev = Append(@, "write") ]
    ELSE LET e == [ r EXCEPT !.res = on_io_error(@), !.faulted = TRUE,
                             !.ev = Append(@, "write_err") ]
         IN  Settle(cfg, e, t, [ e EXCEPT !.pc = "close" ])

\* a read that advances the mutator after every exchange
ReadDoneAdvancing(cfg, r, ok, t) ==
    IF ok
    THEN IF more_exchanges(cfg, r.ex + 1)
         THEN DoAdvance([ r EXCEPT !.pc = "write", !.ex = @ + 1, !.ev = Append(@, "read") ])
         ELSE DoAdvance([ r EXCEPT !.pc = "close", !.ex = @ + 1, !.ev = Append(@, "read") ])
    ELSE LET e == [ r EXCEPT !.res = on_io_error(@), !.faulted = TRUE,
                             !.ev = Append(@, "read_err") ]
         IN  Settle(cfg, e, t, [ e EXCEPT !.pc = "close" ])

ReadDone(cfg, r, ok, t) ==
    IF ok
    THEN IF more_exchanges(cfg, r.ex + 1)
         THEN [ r EXCEPT !.pc = "write", !.ex = @ + 1, !.ev = Append(@, "read") ]
         ELSE [ r EXCEPT !.pc = "close", !.ex = @ + 1, !.ev = Append(@, "read") ]
    ELSE LET e == [ r EXCEPT !.res = on_io_error(@), !.faulted = TRUE,
                             !.ev = Append(@, "read_err") ]
         IN  Settle(cfg, e, t, [ e EXCEPT !.pc = "close" ])

\* `Delay::new(..).await.unwrap()`: the pacing sleep is over, or the timer
\* failed and unwrap() panics
DelayDone(cfg, r, ok, t) ==
    IF ok
    THEN after_pacing(cfg, r, t)
    ELSE [ r EXCEPT !.pc = "panicked", !.ev = Append(@, "timer_err") ]

\* first poll of the spawned future: the Delay of the worker stagger is built
\* and dropped without being awaited, then connection() takes `start`
WorkerStart(w) ==
    /\ wk[w].pc = "start"
    /\ ~ThreadPanicked(w[1])
    /\ wk[w].count < CountCap(config)
    /\ wk' = [ wk EXCEPT ![w] = DoCheck(config, [ @ EXCEPT !.start = now ], now) ]
    /\ UNCHANGED <<pool, config, derived, now, driver>>

Connect(w) ==
    /\ wk[w].pc = "connect"
    /\ ~ThreadPanicked(w[1])
    /\ \E ok \in BOOLEAN :
         /\ ok \/ wk[w].count < CountCap(config)
         /\ wk' = [ wk EXCEPT ![w] = ConnectDone(config, @, ok, now) ]
    /\ UNCHANGED <<pool, config, derived, now, driver>>

Write(w) ==
    /\ wk[w].pc = "write"
    /\ ~ThreadPanicked(w[1])
    /\ \E ok \in BOOLEAN :
         wk' = [ wk EXCEPT ![w] = WriteDone(config, @, ok, now) ]
    /\ UNCHANGED <<pool, config, derived, now, driver>>

Read(w) ==
    /\ wk[w].pc = "read"
    /\ ~ThreadPanicked(w[1])
    /\ \E ok \in BOOLEAN :
         wk' = [ wk EXCEPT ![w] = ReadDone(config, @, ok, now) ]
    /\ UNCHANGED <<pool, config, derived, now, driver>>

\* a close that bumps a counter shared by the workers of the thread
CloseSharedCounter(w) ==
    /\ wk[w].pc = "close"
    /\ ~ThreadPanicked(w[1])
    /\ wk[w].count < CountCap(config)
    /\ wk' = [ v \in WorkerIds |->
                 IF v = w THEN CloseConnection(config, wk[v], now)
                 ELSE IF v[1] = w[1] /\ wk[v].pc = "sleep"
                      THEN [ wk[v] EXCEPT !.count = @ + 1 ]
                      ELSE wk[v] ]
    /\ UNCHANGED <<pool, config, derived, now, driver>>

Close(w) ==
    /\ wk[w].pc = "close"
    /\ ~ThreadPanicked(w[1])
    /\ wk[w].count < CountCap(config)
    /\ wk' = [ wk EXCEPT ![w] = CloseConnection(config, @, now) ]
    /\ UNCHANGED <<pool, config, derived, now, driver>>

WakeUp(w) ==
    /\ wk[w].pc = "sleep"
    /\ ~ThreadPanicked(w[1])
    /\ now >= wk[w].wake
    /\ \E ok \in BOOLEAN :
         /\ ~ok \/ wk[w].count < CountCap(config)
         /\ wk' = [ wk EXCEPT ![w] = DelayDone(config, [ @ EXCEPT !.wake = 0 ], ok, now) ]
    /\ UNCHANGED <<pool, config, derived, now, driver>>

\* ---- the clock ----

\* a step that takes no time, or whose deadline has come, is due before the
\* clock moves on
WorkerDue(w) ==
    /\ ~ThreadPanicked(w[1])
    /\ \/ wk[w].pc \in {"start", "close"}
       \/ wk[w].pc = "sleep" /\ now >= wk[w].wake
       \/ wk[w].pc \in IoPcs /\ now - wk[w].request_start >= MaxLat

DriverDue ==
    \/ driver.pc = "spawn"
    \/ driver.pc = "sleep" /\ now >= driver.wake
    \/ driver.pc = "join" /\ driver.joined = num_threads(config)
    \/ driver.pc = "join" /\ driver.joined < num_threads(config)
                          /\ ThreadFinished(driver.joined + 1)

Tick ==
    /\ now < MaxTime
    /\ driver.pc \notin {"returned", "panicked"}
    /\ ~DriverDue
    /\ \A w \in WorkerIds : ~WorkerDue(w)
    /\ now' = now + 1
    /\ UNCHANGED <<pool, config, derived, driver, wk>>

Next ==
    \/ SpawnThread
    \/ StaggerDone
    \/ Join
    \/ Return
    \/ \E w \in WorkerIds : WorkerStart(w)
    \/ \E w \in WorkerIds : Connect(w)
    \/ \E w \in WorkerIds : Write(w)
    \/ \E w \in WorkerIds : Read(w)
    \/ \E w \in WorkerIds : Close(w)
    \/ \E w \in WorkerIds : WakeUp(w)
    \/ Tick

Spec == Init /\ [][Next]_vars

\* ---- fair scheduling ----

\* the OS runs the calling thread and lets time pass; pool.run() of every
\* thread polls each future that is ready; every connect, write, read and
\* pacing Delay that is pending completes, with Ok or with Err
Fairness ==
    /\ WF_vars(SpawnThread) /\ WF_vars(StaggerDone)
    /\ WF_vars(Join) /\ WF_vars(Return)
    /\ WF_vars(Tick)
    /\ \A w \in WorkerIds :
          /\ WF_vars(WorkerStart(w)) /\ WF_vars(Connect(w)) /\ WF_vars(Write(w))
          /\ WF_vars(Read(w)) /\ WF_vars(Close(w)) /\ WF_vars(WakeUp(w))

SpecLive == Init /\ [][Next]_vars /\ Fairness

\* ---- a peer that stays silent, and read_timeout ----

\* the Configs with a read_timeout (the milliseconds of the field counted in
\* ticks), no longer than the longest answer of a peer that does answer
TimeoutConfigs ==
    { [ c EXCEPT !.read_timeout = rt ] : c \in Configs, rt \in 1..MaxLat }

InitTimeout ==
    /\ config \in TimeoutConfigs
    /\ derived = NotDerived
    /\ now = 0
    /\ driver = [ pc |-> "spawn", spawned |-> 0, joined |-> 0, wake |-> 0,
                  start |-> 0, retAt |-> 0, result |-> "none" ]
    /\ wk = [ w \in WorkerIds |-> Unspawned ]
    /\ pool = NoPool

\* the peer sends nothing and does not close: read_to_end() stays pending and
\* the worker stays suspended at `read(&mut stream).await`, where no timer is
\* armed and config.read_timeout is not consulted
ReadPending(w) ==
    /\ wk[w].pc = "read"
    /\ ~ThreadPanicked(w[1])
    /\ wk' = [ wk EXCEPT ![w].pc = "hung" ]
    /\ UNCHANGED <<pool, config, derived, now, driver>>

\* the read the worker was blocked in fails at last (the kernel gives up on
\* the connection): the Err arm of read()
ReadFailsLate(w) ==
    /\ wk[w].pc = "hung"
    /\ ~ThreadPanicked(w[1])
    /\ wk' = [ wk EXCEPT ![w] = ReadDone(config, [ @ EXCEPT !.pc = "read" ], FALSE, now) ]
    /\ UNCHANGED <<pool, config, derived, now, driver>>

NextTimeout ==
    \/ Next
    \/ \E w \in WorkerIds : ReadPending(w)
    \/ \E w \in WorkerIds : ReadFailsLate(w)

SpecTimeout == InitTimeout /\ [][NextTimeout]_vars

\* ---- the Config arithmetic on its own ----

\* Config::new(target): the defaults
ConfigNew ==
    [ workers  |-> DefaultWorkers,
      rate     |-> None,
      limit    |-> None,
      repeat   |-> 1,
      duration |-> None,
      threads  |-> None,
      read_timeout    |-> None,
      connect_timeout |-> None,
      fuzz_path       |-> None ]

\* the setters of ConfigBuilder, on the Config the builder holds
ConfigBuilder_connections(cfg, connections) == [ cfg EXCEPT !.workers = connections ]

ConfigBuilder_rate(cfg, rate) == [ cfg EXCEPT !.rate = rate ]

ConfigBuilder_duration(cfg, duration) == [ cfg EXCEPT !.duration = duration ]

ConfigBuilder_threads(cfg, threads) == [ cfg EXCEPT !.threads = threads ]

ConfigBuilder_connect_timeout(cfg, connect_timeout) ==
    [ cfg EXCEPT !.connect_timeout = connect_timeout ]

ConfigBuilder_read_timeout(cfg, read_timeout) ==
    [ cfg EXCEPT !.read_timeout = read_timeout ]

\* a limit setter that writes the rate
ConfigBuilder_limit_into_rate(cfg, limit) == [ cfg EXCEPT !.rate = limit ]

ConfigBuilder_limit(cfg, limit) == [ cfg EXCEPT !.limit = limit ]

ConfigBuilder_repeat(cfg, repeat) == [ cfg EXCEPT !.repeat = repeat ]

ConfigBuilder_fuzz_path(cfg, path) == [ cfg EXCEPT !.fuzz_path = path ]

\* ConfigBuilder::build(self)
ConfigBuilder_build(cfg) == cfg

\* the arguments the setters are called with
ArgWorkers == 1..MathWorkers
ArgRate == {None} \cup (1..MathRate)
ArgDuration == {None} \cup (1..MaxDuration)
ArgThreads == {None} \cup (1..MathThreads)
ArgTimeout == {None} \cup {Second}
ArgLimit == {None} \cup (0..MathLimit)
ArgRepeat == 0..MathRepeat
ArgPath == {None} \cup {1}

\* ConfigBuilder::new(target)
InitMath ==
    /\ config = ConfigNew
    /\ derived = NotDerived
    /\ now = 0
    /\ driver = [ pc |-> "spawn", spawned |-> 0, joined |-> 0, wake |-> 0,
                  start |-> 0, retAt |-> 0, result |-> "none" ]
    /\ wk = [ w \in WorkerIds |-> Unspawned ]
    /\ pool = NoPool

\* a setter was called: what was derived from the Config is stale
Rebuilt(cfg) ==
    /\ config' = cfg
    /\ derived' = NotDerived
    /\ UNCHANGED <<pool, now, driver, wk>>

SetConnections == \E n \in ArgWorkers : Rebuilt(ConfigBuilder_connections(config, n))

SetRate == \E r \in ArgRate : Rebuilt(ConfigBuilder_rate(config, r))

SetDuration == \E d \in ArgDuration : Rebuilt(ConfigBuilder_duration(config, d))

SetThreads == \E t \in ArgThreads : Rebuilt(ConfigBuilder_threads(config, t))

SetConnectTimeout == \E t \in ArgTimeout : Rebuilt(ConfigBuilder_connect_timeout(config, t))

SetReadTimeout == \E t \in ArgTimeout : Rebuilt(ConfigBuilder_read_timeout(config, t))

SetLimit == \E l \in ArgLimit : Rebuilt(ConfigBuilder_limit(config, l))

SetRepeat == \E n \in ArgRepeat : Rebuilt(ConfigBuilder_repeat(config, n))

SetFuzzPath == \E f \in ArgPath : Rebuilt(ConfigBuilder_fuzz_path(config, f))

\* build(), then the four derived quantities of the Config as its methods
\* return them
Derive ==
    /\ derived = NotDerived
    /\ config' = ConfigBuilder_build(config)
    /\ derived' = [ called |-> TRUE,
                    num_threads |-> num_threads(config'),
                    connections_per_thread |-> connections_per_thread(config'),
                    connection_delay |-> connection_delay(config'),
                    limit_per_connection |-> limit_per_connection(config') ]
    /\ UNCHANGED <<pool, now, driver, wk>>

NextMath ==
    \/ SetConnections
    \/ SetRate
    \/ SetDuration
    \/ SetThreads
    \/ SetConnectTimeout
    \/ SetReadTimeout
    \/ SetLimit
    \/ SetRepeat
    \/ SetFuzzPath
    \/ Derive

SpecMath == InitMath /\ [][NextMath]_vars

\* ---- the WorkerPool of src/src/pool.rs ----

\* A task is known by the place it was pushed at.  Of a task:
\*   st   : "none" (not pushed), "queued", "running" (its future was spawned),
\*          "done" (the future is over and WorkerDone was sent)
\*   left : the results it still has to send      sent : those it has sent
\* Of the pool, beside the fields of the struct: cap, the capacity the worker
\* and close channels were made with; worker_ch, close_ch, events and output,
\* what the channels hold; pc, where start() is; held, the result taken from
\* the worker channel and not yet sent to the output.  For the properties:
\* pushed, started (the tasks in the order they were started), done_seen (the
\* WorkerDone events processed), stops (the stop messages sent by the
\* balance_workers() call under way), excess (cur_workers - target when that
\* call began).
TaskIds == 1..MaxTasks

NoTask == [ st |-> "none", left |-> 0, sent |-> 0 ]

\* WorkerPool::new(task, output, num_workers)
WorkerPool_new(num_workers) ==
    [ pc |-> "idle",
      num_workers |-> num_workers,
      cur_workers |-> 0,
      queue |-> << >>,
      cap |-> num_workers,
      worker_ch |-> << >>,
      close_ch |-> 0,
      events |-> 0,
      output |-> << >>,
      held |-> None,
      tasks |-> [ i \in TaskIds |-> NoTask ],
      pushed |-> 0, started |-> << >>, done_seen |-> 0, stops |-> 0,
      excess |-> 0 ]

InitPool ==
    /\ config = ConfigNew
    /\ derived = NotDerived
    /\ now = 0
    /\ driver = [ pc |-> "spawn", spawned |-> 0, joined |-> 0, wake |-> 0,
                  start |-> 0, retAt |-> 0, result |-> "none" ]
    /\ wk = [ w \in WorkerIds |-> Unspawned ]
    /\ \E n \in 1..PoolWorkers : pool = WorkerPool_new(n)

PoolStep(p) ==
    /\ pool' = p
    /\ UNCHANGED <<config, derived, now, driver, wk>>

\* push(task): the task, which will send n results, goes to the back
Push ==
    /\ pool.pc = "idle"
    /\ pool.pushed < MaxTasks
    /\ \E n \in 0..MaxResults :
         PoolStep([ pool EXCEPT !.queue = Append(@, pool.pushed + 1),
                                !.pushed = @ + 1,
                                !.tasks[pool.pushed + 1] =
                                    [ st |-> "queued", left |-> n, sent |-> 0 ] ])

\* set_target_workers(n), by the owner of the pool before it calls start()
SetTarget ==
    /\ pool.pc = "idle"
    /\ \E n \in 0..PoolWorkers :
         PoolStep([ pool EXCEPT !.num_workers = n ])

\* start() is called: the loop begins with flush_output()
Start ==
    /\ pool.pc = "idle"
    /\ PoolStep([ pool EXCEPT !.pc = "flush" ])

\* flush_output(): `worker_recv.try_recv()` yields a result
FlushTake ==
    /\ pool.pc = "flush"
    /\ pool.worker_ch # << >>
    /\ PoolStep([ pool EXCEPT !.held = Head(pool.worker_ch),
                              !.worker_ch = Tail(@),
                              !.pc = "flush_send" ])

\* flush_output(): `self.output.send(out).await` goes through once the output
\* channel has room
FlushSend ==
    /\ pool.pc = "flush_send"
    /\ Len(pool.output) < OutputCap
    /\ PoolStep([ pool EXCEPT !.output = Append(@, pool.held),
                              !.held = None,
                              !.pc = "flush" ])

\* flush_output(): try_recv() finds the worker channel empty
FlushEnd ==
    /\ pool.pc = "flush"
    /\ pool.worker_ch = << >>
    /\ PoolStep([ pool EXCEPT !.pc = "events" ])

\* event_loop(): every WorkerDone waiting on the event channel takes one off
\* cur_workers (Command(Stop) is sent by nobody); it returns true
event_loop(p) ==
    [ p EXCEPT !.cur_workers = @ - p.events,
               !.done_seen = @ + p.events,
               !.events = 0,
               !.pc = "balance" ]

EventLoop ==
    /\ pool.pc = "events"
    /\ PoolStep(event_loop(pool))

\* start_worker() that takes the task at the back of the queue
start_worker_lifo(p) ==
    IF p.queue = << >> THEN p
    ELSE LET task == p.queue[Len(p.queue)]
         IN  [ p EXCEPT !.queue = SubSeq(@, 1, Len(@) - 1),
                        !.tasks[task].st = "running",
                        !.started = Append(@, task),
                        !.cur_workers = @ + 1 ]

\* start_worker(): pop_front() and spawn the future of the task
start_worker(p) ==
    IF p.queue = << >> THEN p
    ELSE LET task == Head(p.queue)
         IN  [ p EXCEPT !.queue = Tail(@),
                        !.tasks[task].st = "running",
                        !.started = Append(@, task),
                        !.cur_workers = @ + 1 ]

\* `self.cur_workers() == self.target_workers()`
at_target_worker_count(p) == p.cur_workers = p.num_workers

\* a loop that goes on one worker beyond the target
add_workers_one_more(p) ==
    LET RECURSIVE fill(_, _)
        fill(q, k) ==
            IF k > 0 /\ q.queue # << >> /\ q.cur_workers <= q.num_workers
            THEN fill(start_worker(q), k - 1) ELSE q
    IN  fill(p, MaxTasks)

\* `while !self.queue.is_empty() && !self.at_target_worker_count()`
add_workers(p) ==
    LET RECURSIVE fill(_, _)
        fill(q, k) ==
            IF k > 0 /\ q.queue # << >> /\ ~at_target_worker_count(q)
            THEN fill(start_worker(q), k - 1) ELSE q
    IN  fill(p, MaxTasks)

\* balance_workers(): with cur_workers <= target workers are added and it
\* returns; otherwise the loop of stop messages begins
balance_workers(p) ==
    IF p.cur_workers <= p.num_workers
    THEN [ add_workers(p) EXCEPT !.pc = "working" ]
    ELSE [ p EXCEPT !.pc = "stopping", !.stops = 0,
                    !.excess = p.cur_workers - p.num_workers ]

Balance ==
    /\ pool.pc = "balance"
    /\ PoolStep(balance_workers(pool))

\* `while !self.at_target_worker_count() { self.send_stop_work_message().await }`:
\* one more () goes on the close channel once it has room (nothing in the
\* loop changes cur_workers or the target), or the loop is left
StopLoop ==
    /\ pool.pc = "stopping"
    /\ IF at_target_worker_count(pool)
       THEN PoolStep([ pool EXCEPT !.pc = "working" ])
       ELSE /\ pool.close_ch < pool.cap
            /\ PoolStep([ pool EXCEPT !.close_ch = @ + 1, !.stops = @ + 1 ])

\* `if !self.working() { break; }`
CheckWorking ==
    /\ pool.pc = "working"
    /\ PoolStep([ pool EXCEPT !.pc = IF pool.cur_workers > 0 THEN "flush"
                                    ELSE "returned" ])

\* try_next(), by the owner once start() is back
TryNext ==
    /\ pool.pc = "returned"
    /\ pool.worker_ch # << >>
    /\ PoolStep([ pool EXCEPT !.worker_ch = Tail(@) ])

\* a worker: `job.results.send(out).await` once the worker channel has room
WorkerSend(i) ==
    /\ pool.tasks[i].st = "running"
    /\ pool.tasks[i].left > 0
    /\ Len(pool.worker_ch) < pool.cap
    /\ PoolStep([ pool EXCEPT !.worker_ch = Append(@, i),
                              !.tasks[i].left = @ - 1,
                              !.tasks[i].sent = @ + 1 ])

\* a worker: `job.close.try_recv()` yields a stop message; the task gives up
\* what it had left to do, its future is over and WorkerDone is sent
WorkerTakeStop(i) ==
    /\ pool.tasks[i].st = "running"
    /\ pool.close_ch > 0
    /\ PoolStep([ pool EXCEPT !.close_ch = @ - 1,
                              !.tasks[i].st = "done", !.events = @ + 1 ])

\* a worker: the future of the task is over, WorkerDone goes on the event
\* channel
WorkerFinish(i) ==
    /\ pool.tasks[i].st = "running"
    /\ pool.tasks[i].left = 0
    /\ PoolStep([ pool EXCEPT !.tasks[i].st = "done", !.events = @ + 1 ])

\* the consumer: `recv.recv().await` takes a result off the output channel
Consume ==
    /\ pool.output # << >>
    /\ PoolStep([ pool EXCEPT !.output = Tail(@) ])

\* the owner, start() and what it calls, the workers it spawned, the consumer
NextPool ==
    \/ Push
    \/ SetTarget
    \/ Start
    \/ FlushTake
    \/ FlushSend
    \/ FlushEnd
    \/ EventLoop
    \/ Balance
    \/ CheckWorking
    \/ TryNext
    \/ \E i \in TaskIds : WorkerSend(i)
    \/ \E i \in TaskIds : WorkerFinish(i)
    \/ Consume

\* the thread in block_on() runs start(), the executor polls the workers'
\* futures, which all come to an end, and the consumer drains the output
FairPool ==
    /\ WF_vars(FlushTake) /\ WF_vars(FlushSend) /\ WF_vars(FlushEnd)
    /\ WF_vars(EventLoop) /\ WF_vars(Balance) /\ WF_vars(CheckWorking)
    /\ WF_vars(Consume)
    /\ \A i \in TaskIds : WF_vars(WorkerSend(i)) /\ WF_vars(WorkerFinish(i))

SpecPool == InitPool /\ [][NextPool]_vars /\ FairPool

\* set_target_workers(n) between two of the calls start() makes
Retarget ==
    /\ pool.pc \in {"flush", "events", "balance", "working"}
    /\ \E n \in 0..PoolWorkers :
         PoolStep([ pool EXCEPT !.num_workers = n ])

NextRetarget ==
    \/ NextPool
    \/ Retarget
    \/ StopLoop
    \/ \E i \in TaskIds : WorkerTakeStop(i)

SpecRetarget == InitPool /\ [][NextRetarget]_vars

\* ---- properties ----

N == limit_per_connection(config)

W == config.workers

OnlyLimit == IsSome(config.limit) /\ ~IsSome(config.duration)

OnlyDuration == IsSome(config.duration) /\ ~IsSome(config.limit)

RECURSIVE SumIters(_)
SumIters(S) ==
    IF S = {} THEN 0
    ELSE LET w == CHOOSE x \in S : TRUE
         IN  wk[w].iters + SumIters(S \ {w})

TotalIters == SumIters(WorkerIds)

AllDone ==
    /\ driver.spawned = num_threads(config)
    /\ \A w \in Spawned(config) : wk[w].pc = "done"

Max2(a, b) == IF a > b THEN a ELSE b

RECURSIVE MaxLatOf(_)
MaxLatOf(S) ==
    IF S = {} THEN 0
    ELSE LET w == CHOOSE x \in S : TRUE
         IN  Max2(wk[w].lat, MaxLatOf(S \ {w}))

Longest == MaxLatOf(WorkerIds)

\* the termination predicate as the specification words it, over the
\* iterations the worker has finished and the time since its loop began
StopCond(r, t) ==
    \/ IsSome(config.duration) /\ t - r.start >= config.duration
    \/ IsSome(N) /\ r.iters >= N

\* worker w evaluated loop_complete in this step
Checked(w) == wk'[w].count = wk[w].count + 1

\* worker w issued the connect of a new iteration in this step
ConnectIssued(w) ==
    /\ wk'[w].pc = "connect"
    /\ wk[w].pc # "connect" \/ wk'[w].iters # wk[w].iters

Has(ev, e) == \E i \in 1..Len(ev) : ev[i] = e

HasErr(ev) == Has(ev, "connect_err") \/ Has(ev, "write_err") \/ Has(ev, "read_err")

Occurrences(ev, e) == Cardinality({ i \in 1..Len(ev) : ev[i] = e })

\* a before b whenever both occur
Before(ev, a, b) ==
    \A i, j \in 1..Len(ev) : ev[i] = a /\ ev[j] = b => i < j

\* C1: with a limit and no duration, once every worker is Done the iterations
\* of all workers add up to W * floor(L / W)
C1_TotalIsWTimesFloor ==
    (OnlyLimit /\ AllDone) => TotalIters = W * (config.limit \div W)

\* C2: a worker passes a termination check only while the time since clobber()
\* was called is below duration, whichever thread it runs on
C2_SharedDriverStart ==
    IsSome(config.duration) =>
        \A w \in WorkerIds :
            wk[w].pc = "connect" => wk[w].request_start - driver.start < config.duration

\* C3: with a duration and no limit, clobber() returns between D and
\* D + the longest single request after it was called
C3_ReturnWithinDPlusLatency ==
    (OnlyDuration /\ driver.pc = "returned") =>
        /\ driver.retAt - driver.start >= config.duration
        /\ driver.retAt - driver.start <= config.duration + Longest

\* C4: at every termination check the worker stops iff the duration has
\* elapsed or it has finished limit_per_connection iterations, and with only
\* the limit set a Done worker has run exactly limit_per_connection iterations
C4_StopsAtFirstTrueCheck ==
    [][ \A w \in WorkerIds :
          /\ Checked(w) => (wk'[w].pc = "done" <=> StopCond(wk'[w], now))
          /\ (OnlyLimit /\ wk'[w].pc = "done") => wk'[w].iters = N ]_vars

C4_Witness ==
    \E w \in WorkerIds :
        /\ OnlyLimit /\ N >= 1
        /\ wk[w].pc = "done" /\ wk[w].iters = N

\* C5: every connect is issued by a step that evaluated the termination
\* predicate and found it false, the step after a pacing sleep evaluates it,
\* and a worker that found it true never moves again
C5_CheckBeforeEveryConnect ==
    [][ \A w \in WorkerIds :
          /\ ConnectIssued(w) => (Checked(w) /\ ~StopCond(wk'[w], now))
          /\ (wk[w].pc = "sleep" /\ wk'[w] # wk[w] /\ wk'[w].pc # "panicked")
                => Checked(w)
          /\ wk[w].pc = "done" => wk'[w] = wk[w] ]_vars

C5_Witness ==
    \E w \in WorkerIds :
        /\ wk[w].pc = "connect" /\ wk[w].iters >= 1
        /\ IsSome(config.rate) /\ connection_delay(config) > MaxLat

\* C6 as the specification words it: write, read, advance(), counter
\* increment, pacing sleep, the increment never before the write and the read
C6_IncrementAfterExchange ==
    \A w \in WorkerIds :
        LET ev == wk[w].ev
        IN  /\ Before(ev, "write", "inc") /\ Before(ev, "read", "inc")
            /\ Before(ev, "advance", "inc") /\ Before(ev, "inc", "sleep")
            /\ Has(ev, "inc") => (Has(ev, "write") /\ Has(ev, "read"))

Rank(e) ==
    CASE e = "inc" -> 0
      [] e \in {"go", "stop"} -> 1
      [] e \in {"connect", "connect_err"} -> 2
      [] e \in {"write", "write_err", "read", "read_err"} -> 3
      [] e = "drop" -> 4
      [] e = "advance" -> 5
      [] e \in {"sleep", "warn"} -> 6
      [] e = "timer_err" -> 7

\* C6: in an iteration the counter is incremented first (by the termination
\* check), then come connect, write, read (write and read alternating when
\* repeated), the drop of the stream, advance() and the pacing sleep
C6_IncrementThenExchange ==
    \A w \in WorkerIds :
        LET ev == wk[w].ev
        IN  /\ Len(ev) > 0 => ev[1] = "inc"
            /\ \A i, j \in 1..Len(ev) :
                 i < j => \/ Rank(ev[i]) < Rank(ev[j])
                          \/ Rank(ev[i]) = 3 /\ Rank(ev[j]) = 3
            /\ \A i \in 1..Len(ev) :
                 /\ ev[i] \in {"write", "write_err"} => i > 1 /\ ev[i-1] \in {"connect", "read"}
                 /\ ev[i] \in {"read", "read_err"} => i > 1 /\ ev[i-1] = "write"

C6_Witness ==
    \E w \in WorkerIds :
        /\ wk[w].pc = "sleep"
        /\ wk[w].ev = <<"inc", "go", "connect", "write", "read", "drop", "advance", "sleep">>

\* C7 as the specification words it: the counter counts transactions that
\* reached PostTx, so a worker stopped by its limit has closed
\* limit_per_connection connections
C7_CounterCountsTransactions ==
    \A w \in WorkerIds :
        (OnlyLimit /\ wk[w].pc = "done") => wk[w].closed = N

\* C7: the counter counts the termination checks, one per iteration whether
\* its connect succeeded or failed: it is one ahead of the finished iterations
\* from the check to the end of the body, and level with them during the sleep
C7_CounterCountsIterations ==
    \A w \in WorkerIds :
        /\ wk[w].pc \in {"connect", "write", "read", "close", "done"}
              => wk[w].count = wk[w].iters + 1
        /\ wk[w].pc = "sleep" => wk[w].count = wk[w].iters
        /\ wk[w].closed <= wk[w].iters

C7_Witness ==
    \E w \in WorkerIds :
        /\ OnlyLimit /\ N >= 1
        /\ wk[w].pc = "done" /\ wk[w].closed < N

C9_AtMostOneConnection ==
    \A w \in WorkerIds :
        /\ wk[w].open <= 1
        /\ wk[w].pc \in {"connect", "sleep", "done"} => wk[w].open = 0

C9_Witness ==
    \E w \in WorkerIds :
        wk[w].pc = "connect" /\ wk[w].closed >= 1 /\ wk[w].open = 0

\* C10: no connect, write or read failure ends a worker, makes connection()
\* return Err or panics the thread (only a failed timer does): after the
\* failure the worker is at the end of its body or pacing, still running
C10_IoErrorsNeverEndWorker ==
    /\ driver.result = "Panic" => \E w \in WorkerIds : Has(wk[w].ev, "timer_err")
    /\ \A w \in WorkerIds :
         /\ wk[w].res # "Err" /\ wk[w].pc # "failed"
         /\ wk[w].pc = "panicked" => Has(wk[w].ev, "timer_err")
         /\ (HasErr(wk[w].ev) /\ ~Has(wk[w].ev, "timer_err"))
               => (wk[w].pc \in {"close", "sleep"} /\ wk[w].res = "none")

C10_Witness ==
    \E w \in WorkerIds :
        wk[w].pc = "connect" /\ wk[w].iters >= 1 /\ wk[w].closed = 0

\* ---- pacing, stagger, spawn and join ----

\* worker w finished the body of an iteration in this step
IterationEnded(w) == wk'[w].iters = wk[w].iters + 1

\* `Instant::now() - request_start` at this step
Elapsed(w) == now - wk[w].request_start

\* the connect worker w was waiting for failed in this step
ConnectFailed(w) == wk[w].pc = "connect" /\ IterationEnded(w)

\* C11 as the specification words it: after a failed connect the next connect
\* is never issued at once, only after a pacing sleep or a pacing underrun
C11_PacedAfterFailedConnect ==
    [][ \A w \in WorkerIds :
          (ConnectFailed(w) /\ wk'[w].pc = "connect")
              => (IsSome(config.rate) /\ wk'[w].warns = wk[w].warns + 1) ]_vars

\* C11: a failed connect ends the iteration without a stream and is paced as
\* any iteration is: with a rate the worker sleeps until connection_delay
\* after the attempt began (or warns when that is already past); with no rate
\* it goes to the next termination check, and the next connect, at once
C11_FailedConnectPacedAsAnyIteration ==
    [][ \A w \in WorkerIds :
          LET delay == connection_delay(config)
          IN  ConnectFailed(w) =>
                /\ wk'[w].open = 0 /\ wk'[w].closed = wk[w].closed
                /\ (IsSome(config.rate) /\ Elapsed(w) < delay) =>
                      /\ wk'[w].pc = "sleep"
                      /\ wk'[w].wake = wk[w].request_start + delay
                /\ (IsSome(config.rate) /\ Elapsed(w) >= delay) =>
                      /\ wk'[w].pc \in {"connect", "done"} /\ Checked(w)
                      /\ wk'[w].warns = wk[w].warns + 1
                /\ ~IsSome(config.rate) =>
                      /\ wk'[w].pc \in {"connect", "done"} /\ Checked(w)
                      /\ wk'[w].warns = wk[w].warns
                      /\ wk'[w].pc = "connect" => wk'[w].request_start = now ]_vars

C11_Witness ==
    \E w \in WorkerIds :
        wk[w].pc = "sleep" /\ wk[w].ev = <<"inc", "go", "connect_err", "sleep">>

\* C12: with a rate, an iteration that took less than connection_delay is
\* followed by a sleep of connection_delay - elapsed that does not end early,
\* so consecutive iterations of a worker begin at least connection_delay
\* apart; with no rate the worker never sleeps
C12_PacingSleep ==
    [][ \A w \in WorkerIds :
          LET delay == connection_delay(config)
          IN  /\ (IterationEnded(w) /\ IsSome(config.rate) /\ Elapsed(w) < delay) =>
                    /\ wk'[w].pc = "sleep"
                    /\ wk'[w].wake = now + (delay - Elapsed(w))
              /\ (wk[w].pc = "sleep" /\ wk'[w] # wk[w]) => now >= wk[w].wake
              /\ wk'[w].pc = "sleep" => IsSome(config.rate)
              /\ (ConnectIssued(w) /\ IterationEnded(w) /\ IsSome(config.rate)) =>
                    wk'[w].request_start - wk[w].request_start >= delay
              /\ (ConnectIssued(w) /\ wk[w].pc = "sleep") =>
                    wk'[w].request_start >= wk[w].wake ]_vars

C12_Witness ==
    \E w \in WorkerIds :
        wk[w].pc = "sleep" /\ Has(wk[w].ev, "read") /\ wk[w].wake > now

\* C13: an iteration that took connection_delay or more logs one warning,
\* is followed by no sleep and no error, and the worker goes on to its next
\* termination check; nothing else logs that warning
C13_UnderrunWarnsOnce ==
    [][ \A w \in WorkerIds :
          LET underrun == /\ IterationEnded(w) /\ IsSome(config.rate)
                          /\ Elapsed(w) >= connection_delay(config)
          IN  /\ underrun =>
                    /\ wk'[w].warns = wk[w].warns + 1
                    /\ wk'[w].pc \in {"connect", "done"} /\ Checked(w)
                    /\ wk'[w].pc = "done" <=> StopCond(wk'[w], now)
                    /\ wk'[w].res \in {"none", "Ok"}
              /\ ~underrun => wk'[w].warns = wk[w].warns ]_vars

C13_Witness ==
    \E w \in WorkerIds :
        wk[w].warns >= 1 /\ wk[w].pc = "connect" /\ wk[w].res = "none"

\* worker w has been polled: connection() took its `start`
Started(w) == wk[w].pc \notin {"unspawned", "start"}

\* C14: with a rate (and a positive connection_delay) worker i >= 1 of a
\* thread begins later than worker 0 of that thread
C14_WorkerStagger ==
    \A w \in WorkerIds :
        ( /\ w[2] >= 1 /\ Started(w) /\ Started(<<w[1], 0>>)
          /\ IsSome(config.rate) /\ connection_delay(config) > 0 )
            => wk[w].start > wk[<<w[1], 0>>].start

\* C15 as the specification words it: the sleep after each spawn is one
\* inter-request tick, connection_delay, zero with no rate
C15_StaggerIsTick ==
    [][ driver'.spawned = driver.spawned + 1
          => driver'.wake = now + connection_delay(config) ]_vars

\* C15: after spawning each thread clobber() sleeps one second divided by the
\* number of threads, whatever the rate, and spawns nothing before it is over
C15_StaggerIsSecondOverThreads ==
    [][ /\ driver'.spawned = driver.spawned + 1 =>
              /\ driver'.pc = "sleep"
              /\ driver'.wake = now + (Second \div num_threads(config))
        /\ (driver.pc = "sleep" /\ driver' # driver) => now >= driver.wake ]_vars

C15_Witness ==
    /\ ~IsSome(config.rate)
    /\ driver.pc = "spawn" /\ driver.spawned = 1
    /\ now > 0 /\ now = Second \div num_threads(config)

\* the workers spawned so far
Live == { w \in WorkerIds : wk[w].pc # "unspawned" }

C16_Counts ==
    LET T == num_threads(config)
        q == config.workers \div T
        cpt == IF q = 0 THEN 1 ELSE q
    IN  /\ driver.spawned \in 0..T
        /\ Live = { w \in WorkerIds : w[1] <= driver.spawned /\ w[2] < cpt }
        /\ driver.pc \in {"join", "returned", "panicked"} =>
              /\ driver.spawned = T
              /\ T > 0 => Cardinality(Live) = T * cpt
              /\ T = 0 => Live = {}

C16_SpawnedOnce ==
    \A w \in WorkerIds :
        /\ (wk[w].pc = "unspawned" /\ wk'[w].pc # "unspawned") =>
              /\ driver'.spawned = driver.spawned + 1 /\ w[1] = driver'.spawned
              /\ \A v \in WorkerIds : v[1] = w[1] => wk'[v].pc \in {"unspawned", "start"}
        /\ wk[w].pc # "unspawned" => wk'[w].pc # "unspawned"
        /\ wk'[w].pc = "start" => wk[w].pc \in {"unspawned", "start"}

\* C16: clobber() spawns num_threads threads one by one, each with
\* connections_per_thread workers that are all spawned in the step that
\* starts the thread, before any of them runs; a worker is spawned once
C16_ExactSpawn ==
    []C16_Counts /\ [][C16_SpawnedOnce]_vars

C16_Witness ==
    /\ driver.pc = "join" /\ driver.spawned = 2
    /\ Cardinality(Live) = 2 /\ \E w \in Live : wk[w].iters >= 1

\* C17: clobber() has returned only if every thread was joined and every
\* worker of every thread is Done
C17_ReturnAfterAllDone ==
    driver.pc = "returned" =>
        /\ driver.joined = num_threads(config)
        /\ driver.spawned = num_threads(config)
        /\ \A w \in WorkerIds :
             /\ wk[w].pc \in {"unspawned", "done"}
             /\ w \in Spawned(config) => wk[w].pc = "done"

C17_Witness ==
    /\ driver.pc = "returned"
    /\ \E w \in WorkerIds : wk[w].pc = "done" /\ wk[w].iters >= 1

\* C18: a panic of a worker thread is not re-raised in the caller: clobber()
\* returns, with Ok iff no thread panicked
C18_PanicReturnedAsError ==
    /\ driver.result # "Panic"
    /\ driver.pc = "returned" =>
          (driver.result = "Ok" <=> \A t \in 1..num_threads(config) : ~ThreadPanicked(t))

\* ---- payload, determinism, rate times duration ----

C28_PayloadNeverModified ==
    \A w \in WorkerIds :
        /\ wk[w].message = Payload
        /\ wk[w].sent = IF Has(wk[w].ev, "write") THEN Payload ELSE ""

C28_Witness ==
    \E w \in WorkerIds :
        /\ wk[w].iters >= 1 /\ wk[w].faulted
        /\ wk[w].pc = "read" /\ wk[w].sent = Payload

\* no request of any worker has failed
NoFaults == \A w \in WorkerIds : ~wk[w].faulted

CeilDiv(a, b) == (a + b - 1) \div b

\* C29 as the specification words it, for a run bounded by its duration: the
\* total is that of the run in which every request takes the longest, the
\* same whatever the requests' latencies
C29_SameTotalEveryRun ==
    (OnlyDuration /\ ~IsSome(config.rate) /\ NoFaults /\ AllDone) =>
        TotalIters = Cardinality(Spawned(config)) * CeilDiv(config.duration, MaxLat)

\* C29: a run bounded by its limit alone makes the same number of requests
\* whatever the interleaving, the latencies and the failures
C29_LimitRunsSameTotal ==
    (OnlyLimit /\ AllDone) =>
        LET T == config.threads
            q == config.workers \div T
            cpt == IF q = 0 THEN 1 ELSE q
        IN  /\ T > 0 => TotalIters = T * cpt * (config.limit \div config.workers)
            /\ T = 0 => TotalIters = 0

C29_Witness ==
    /\ OnlyLimit /\ AllDone
    /\ \E v, w \in Spawned(config) :
         /\ wk[v].faulted /\ ~wk[w].faulted
         /\ wk[v].iters >= 1 /\ wk[w].iters >= 1

\* a rate, one thread, a duration of whole seconds, no limit, and a server
\* that has answered every request before connection_delay was over
RateRun ==
    /\ IsSome(config.rate) /\ config.threads = 1 /\ OnlyDuration
    /\ config.duration % Second = 0
    /\ connection_delay(config) > 0
    /\ NoFaults /\ \A w \in WorkerIds : wk[w].warns = 0

C20_NeverUnderSpawn ==
    derived.called =>
        derived.connections_per_thread * derived.num_threads >= config.workers

\* 1 second / r, truncated to whole ticks
TruncatedTick(r) ==
    CHOOSE q \in 0..Second : q * r <= Second /\ (q + 1) * r > Second

\* C21: connection_delay() is (1 second / rate, truncated) times
\* connections_per_thread() times num_threads() with a rate, and zero without
C21_DelayFormula ==
    derived.called =>
        IF config.rate = None
        THEN derived.connection_delay = 0
        ELSE derived.connection_delay =
                 TruncatedTick(config.rate) * derived.connections_per_thread
                                            * derived.num_threads

C21_Witness ==
    /\ derived.called /\ IsSome(config.rate)
    /\ Second % config.rate # 0
    /\ derived.connections_per_thread * derived.num_threads > 1

\* C22: num_threads * connections_per_thread workers that each start one
\* request per connection_delay make rate requests a second: exactly when the
\* rate divides the second, and otherwise no fewer, and fewer than that were
\* each worker's share of the delay one tick longer
C22_AggregateRate ==
    (derived.called /\ IsSome(config.rate)) =>
        LET n == derived.num_threads * derived.connections_per_thread
            delay == derived.connection_delay
            r == config.rate
        IN  /\ delay * r <= n * Second
            /\ (delay + n) * r > n * Second
            /\ Second % r = 0 => delay * r = n * Second

C22_Witness ==
    /\ derived.called /\ IsSome(config.rate) /\ Second % config.rate = 0
    /\ derived.num_threads > 1 /\ derived.connections_per_thread > 1

\* C23: with rate and workers fixed, connection_delay() is the same whatever
\* threads is set to
C23_DelayIndependentOfThreads ==
    (IsSome(config.rate) /\ IsSome(config.threads)) =>
        \A t \in 1..MathThreads :
            connection_delay(ConfigBuilder_threads(config, t)) = connection_delay(config)

\* workers is a multiple of the number of threads
WorkersDivide(cfg) == cfg.workers % num_threads(cfg) = 0

\* C24 as the specification words it: doubling workers halves connection_delay()
C24_DoublingHalves ==
    (IsSome(config.rate) /\ WorkersDivide(config)) =>
        2 * connection_delay(ConfigBuilder_connections(config, 2 * config.workers))
            = connection_delay(config)

\* C24: with rate and threads fixed and workers a multiple of threads,
\* doubling workers doubles connection_delay()
C24_DoublingDoubles ==
    (IsSome(config.rate) /\ WorkersDivide(config)) =>
        connection_delay(ConfigBuilder_connections(config, 2 * config.workers))
            = 2 * connection_delay(config)

C24_Witness ==
    /\ derived.called /\ IsSome(config.rate) /\ WorkersDivide(config)
    /\ derived.connection_delay > 0 /\ derived.num_threads > 1
    /\ config.workers > derived.num_threads

\* C25: a built Config has repeat >= 1
C25_RepeatAtLeastOne ==
    derived.called => config.repeat >= 1

ConfigFields ==
    { "workers", "rate", "limit", "repeat", "duration", "threads",
      "read_timeout", "connect_timeout", "fuzz_path" }

\* c2 is c with field f set to v and nothing else touched
OnlyField(c, c2, f, v) ==
    /\ c2[f] = v
    /\ \A g \in ConfigFields \ {f} : c2[g] = c[g]

\* the field values of cfg replayed through the setters of a new builder
Replay(cfg) ==
    ConfigBuilder_build(
      ConfigBuilder_fuzz_path(
        ConfigBuilder_repeat(
          ConfigBuilder_limit(
            ConfigBuilder_read_timeout(
              ConfigBuilder_connect_timeout(
                ConfigBuilder_threads(
                  ConfigBuilder_duration(
                    ConfigBuilder_rate(
                      ConfigBuilder_connections(ConfigNew, cfg.workers),
                      cfg.rate),
                    cfg.duration),
                  cfg.threads),
                cfg.connect_timeout),
              cfg.read_timeout),
            cfg.limit),
          cfg.repeat),
        cfg.fuzz_path))

\* C26: a new builder builds the defaults (100 workers, repeat 1, every
\* optional field unset), each setter sets its own field and no other, and a
\* Config replayed through the setters is built equal to itself
C26_BuilderRoundTrip ==
    /\ LET c == ConfigBuilder_build(ConfigNew)
       IN  /\ c.workers = 100 /\ c.repeat = 1
           /\ \A f \in ConfigFields \ {"workers", "repeat"} : c[f] = None
    /\ DOMAIN config = ConfigFields
    /\ ConfigBuilder_build(config) = config
    /\ \A n \in ArgWorkers :
         OnlyField(config, ConfigBuilder_connections(config, n), "workers", n)
    /\ \A r \in ArgRate : OnlyField(config, ConfigBuilder_rate(config, r), "rate", r)
    /\ \A d \in ArgDuration :
         OnlyField(config, ConfigBuilder_duration(config, d), "duration", d)
    /\ \A t \in ArgThreads :
         OnlyField(config, ConfigBuilder_threads(config, t), "threads", t)
    /\ \A t \in ArgTimeout :
         /\ OnlyField(config, ConfigBuilder_connect_timeout(config, t), "connect_timeout", t)
         /\ OnlyField(config, ConfigBuilder_read_timeout(config, t), "read_timeout", t)
    /\ \A l \in ArgLimit : OnlyField(config, ConfigBuilder_limit(config, l), "limit", l)
    /\ \A n \in ArgRepeat : OnlyField(config, ConfigBuilder_repeat(config, n), "repeat", n)
    /\ \A f \in ArgPath :
         OnlyField(config, ConfigBuilder_fuzz_path(config, f), "fuzz_path", f)
    /\ Replay(config) = config

C26_Witness ==
    /\ derived.called
    /\ \A f \in ConfigFields : config[f] # ConfigNew[f]

\* ---- zero threads, ordering and frame of the worker steps ----

\* C31: a Config with threads = Some(0) behaves as one with threads unset:
\* num_threads() is the number of CPUs of the host, and clobber() has spawned
\* that many threads, with workers, when it joins and returns
C31_ZeroThreadsMeansAllCpus ==
    (config.threads = 0 /\ driver.pc = "returned") =>
        /\ num_threads(config) = NumCpus
        /\ driver.spawned = NumCpus
        /\ Live # {}

\* what one step of a worker, taken at time t from the record r, can leave:
\* a function of r, the worker's clone of the Config and the clock
StepOutcomes(cfg, r, t) ==
    CASE r.pc = "start" -> { DoCheck(cfg, [ r EXCEPT !.start = t ], t) }
      [] r.pc = "connect" -> { ConnectDone(cfg, r, ok, t) : ok \in BOOLEAN }
      [] r.pc = "write" -> { WriteDone(cfg, r, ok, t) : ok \in BOOLEAN }
      [] r.pc = "read" -> { ReadDone(cfg, r, ok, t) : ok \in BOOLEAN }
      [] r.pc = "close" -> { CloseConnection(cfg, r, t) }
      [] r.pc = "sleep" -> { DelayDone(cfg, [ r EXCEPT !.wake = 0 ], ok, t) : ok \in BOOLEAN }
      [] OTHER -> {}

C35_WriteAfterConnectReadAfterWrite ==
    \A w \in WorkerIds :
        LET ev == wk[w].ev
            n == Len(ev)
        IN  /\ wk[w].pc = "write" =>
                  (wk[w].open = 1 /\ Has(ev, "connect") /\ ev[n] \in {"connect", "read"})
            /\ wk[w].pc = "read" => (wk[w].open = 1 /\ ev[n] = "write")
            /\ Has(ev, "connect_err") =>
                  /\ wk[w].open = 0 /\ ~Has(ev, "connect")
                  /\ ~Has(ev, "write") /\ ~Has(ev, "write_err")
                  /\ ~Has(ev, "read") /\ ~Has(ev, "read_err")
            /\ \A i \in 1..n :
                  /\ ev[i] \in {"write", "write_err"} =>
                        (i > 1 /\ ev[i-1] \in {"connect", "read"})
                  /\ ev[i] \in {"read", "read_err"} => (i > 1 /\ ev[i-1] = "write")
                  /\ (ev[i] \in {"write_err", "read_err"} /\ i < n) => ev[i+1] = "drop"
            /\ (wk[w].pc = "close" /\ HasErr(ev)) =>
                  (wk[w].open = 1 /\ ev[n] \in {"write_err", "read_err"})

C35_Witness ==
    \E w \in WorkerIds :
        /\ wk[w].pc = "sleep"
        /\ wk[w].ev = <<"inc", "go", "connect", "write_err", "drop", "advance", "sleep">>

\* C36: with 1 <= limit < workers limit_per_connection() is 0: every worker
\* is Done at its first termination check, no connect is ever issued, and
\* clobber() returns having made no request
C36_LimitBelowWorkersMakesNothing ==
    (IsSome(config.limit) /\ 1 <= config.limit /\ config.limit < config.workers) =>
        /\ limit_per_connection(config) = 0
        /\ \A w \in WorkerIds :
              /\ wk[w].pc \in {"unspawned", "start", "done"}
              /\ wk[w].iters = 0 /\ wk[w].open = 0 /\ wk[w].closed = 0
              /\ ~Has(wk[w].ev, "go")
              /\ wk[w].pc = "done" => (wk[w].count = 1 /\ wk[w].res = "Ok")
        /\ driver.pc = "returned" => (driver.result = "Ok" /\ TotalIters = 0)

C36_Witness ==
    /\ IsSome(config.limit) /\ 1 <= config.limit /\ config.limit < config.workers
    /\ driver.pc = "returned" /\ Cardinality(Live) >= 2
    /\ \A w \in Live : wk[w].pc = "done" /\ wk[w].count = 1

\* C32: with a read_timeout a read is pending for no longer than read_timeout
\* (the read was issued within MaxLat of the start of the request, so the
\* worker is in it no later than request_start + MaxLat + read_timeout)
C32_ReadAbandonedAtTimeout ==
    IsSome(config.read_timeout) =>
        \A w \in WorkerIds :
            wk[w].pc \in {"read", "hung"} =>
                now - wk[w].request_start <= MaxLat + config.read_timeout

\* the run has come to the end of what the model follows: the clock is at
\* MaxTime, or a worker has made all the checks it is followed for
Horizon ==
    \/ now = MaxTime
    \/ \E w \in WorkerIds : wk[w].count >= CountCap(config)

\* C34: with a limit or a duration, clobber() eventually returns Ok(()),
\* every worker Done, whether its requests and pacing sleeps end with Ok or
\* with Err
C34_EventuallyReturnsOk ==
    (IsSome(config.limit) \/ IsSome(config.duration)) =>
        <>( \/ driver.pc = "returned" /\ driver.result = "Ok" /\ AllDone
            \/ Horizon )

\* no pacing Delay has resolved to Err
NoTimerErr == \A w \in WorkerIds : wk[w].pc # "panicked"

\* what does hold: connect, write and read may fail as they will, but the
\* pacing sleeps have to succeed
C34_ReturnsUnlessTimerFails ==
    (IsSome(config.limit) \/ IsSome(config.duration)) =>
        <>( \/ driver.pc = "returned" /\ driver.result = "Ok" /\ AllDone
            \/ ~NoTimerErr
            \/ Horizon )

\* ---- the WorkerPool ----

\* the tasks whose future is running
Running == { i \in TaskIds : pool.tasks[i].st = "running" }

\* the tasks whose future is over
Finished == { i \in TaskIds : pool.tasks[i].st = "done" }

\* C37: when start() has returned, every result a worker sent has been
\* forwarded to the output channel: none is left in the worker channel
C37_NoResultLeftBehind ==
    pool.pc = "returned" => (pool.worker_ch = << >> /\ pool.held = None)

\* C38 as the specification words it, whatever the target: when start() has
\* returned every task that was pushed has been started
C38_ReturnsWithAllStarted ==
    pool.pc = "returned" => Len(pool.started) = pool.pushed

C38_Safe ==
    /\ \A k \in 1..Len(pool.started) : pool.started[k] = k
    /\ Cardinality(Running) <= pool.cur_workers
    /\ pool.cur_workers <= pool.num_workers
    /\ pool.pc = "returned" =>
          /\ Running = {} /\ pool.cur_workers = 0
          /\ pool.num_workers >= 1 =>
                (Len(pool.started) = pool.pushed /\ pool.queue = << >>)
          /\ pool.num_workers = 0 => pool.started = << >>

\* C38: with the consumer draining the output and every task coming to an
\* end, start() returns; tasks are started in the order they were pushed,
\* each once, never more than the target at a time; and when start() returns
\* with a target of at least 1 every pushed task has been started (with a
\* target of 0 it returns at once and has started none)
C38_ReturnsAllStartedFifo ==
    /\ []C38_Safe
    /\ [](pool.pc = "flush" => <>(pool.pc = "returned"))

C38_Witness ==
    /\ pool.pc = "returned" /\ pool.num_workers = 2
    /\ pool.pushed = 3 /\ pool.started = <<1, 2, 3>>
    /\ \A i \in 1..pool.pushed : pool.tasks[i].sent >= 1

\* C39: balance_workers() called with cur_workers above the target sends one
\* stop message for every worker in excess, and no more
C39_OneStopPerExcessWorker ==
    pool.pc = "stopping" => pool.stops <= pool.excess

C40_Inv ==
    /\ pool.cur_workers = Len(pool.started) - pool.done_seen
    /\ pool.cur_workers >= 0
    /\ pool.events + pool.done_seen = Cardinality(Finished)

C40_Step ==
    /\ pool'.started # pool.started =>
          /\ pool.cur_workers < pool.num_workers
          /\ pool'.cur_workers <= pool'.num_workers
          /\ Len(pool'.started) - Len(pool.started)
                = pool'.cur_workers - pool.cur_workers
    /\ pool'.done_seen # pool.done_seen =>
          pool'.cur_workers = pool.cur_workers - (pool'.done_seen - pool.done_seen)
    /\ (pool.cur_workers <= pool.num_workers /\ pool'.num_workers >= pool.num_workers)
          => pool'.cur_workers <= pool'.num_workers

\* C40: cur_workers is the workers started less the WorkerDone events
\* processed and never goes below 0; workers are started only below the
\* target and never beyond it, so cur_workers stays at or below the target
\* for as long as the target is not lowered
C40_CurWorkersAccounting ==
    []C40_Inv /\ [][C40_Step]_vars

C40_Witness ==
    /\ pool.pc = "working" /\ pool.done_seen >= 1
    /\ pool.cur_workers = pool.num_workers /\ pool.cur_workers = 2
    /\ Len(pool.started) = 3

TypeOK ==
    /\ config \in Configs
    /\ now \in 0..MaxTime
    /\ \A w \in WorkerIds : wk[w].open \in 0..1

====
